---- MODULE Spec2Model ----
(***************************************************************************)
(* Prompt DJ MIDI: the MIDI control-change binding, the weight knobs, the  *)
(* prompt registry and the preset store.                                   *)
(*                                                                         *)
(* Representation.                                                         *)
(*  - A string is a sequence of tokens; the token " " is one whitespace    *)
(*    character, every other token is a run of non-blank characters.       *)
(*  - A weight w is held as the integer w * WeightUnit, so that the three  *)
(*    steps 0.01 (drag), 0.0025 (wheel) and 2/127 (CC) are whole numbers.  *)
(*  - A JavaScript Map is a sequence of <<key, value>> pairs in insertion  *)
(*    order.                                                               *)
(*  - Prompt objects live in a heap and Maps hold references to them:      *)
(*    new Map(m) copies the entries of m, not the objects they point to.   *)
(***************************************************************************)
EXTENDS Integers, Sequences, FiniteSets, TLC

VARIABLES
    phase,              \* "constructed" (after new PromptDjMidi) or "running"
    heap,               \* Prompt objects, by reference
    presets,            \* PromptDjMidi.presets: name -> (promptId -> reference)
    activePresetName,   \* PromptDjMidi.activePresetName
    prompts,            \* PromptDjMidi.prompts: promptId -> reference
    storage,            \* localStorage['prompt-dj-presets-v2']
    showMidi,           \* PromptDjMidi.showMidi
    midi,               \* MidiDispatcher and the pending access request
    ctl,                \* the PromptController elements, in render order
    knob,               \* the WeightKnob element of each controller
    changed,            \* 'prompt-changed' events fired by the last handler
    emitted,            \* 'prompts-changed' payloads fired by the last handler
    alerts,             \* window.alert / 'error' notifications of the last handler
    lastOp,             \* the last handler that ran, with its inputs
    engine,             \* what main last gave liveMusicHelper.setWeightedPrompts
    budget              \* how many more handlers the run may hold

vars == <<phase, heap, presets, activePresetName, prompts, storage, showMidi,
          midi, ctl, knob, changed, emitted, alerts, lastOp, engine, budget>>

-----------------------------------------------------------------------------
(* Bounds of the model *)

\* prompts per preset (16 in DEFAULT_PRESETS)
NumPrompts == 2

-----------------------------------------------------------------------------
(* Numbers *)

Min(a, b) == IF a < b THEN a ELSE b
Max(a, b) == IF a > b THEN a ELSE b

\* the integer that stands for weight 1.0
WeightUnit == 400 * 127

MaxWeight == 2
\* a variant of Clamp that forgets the upper end of the range
ClampLowerOnly(v) == Max(0, v)
\* Math.max(0, Math.min(2, value))
Clamp(v) == Max(0, Min(MaxWeight * WeightUnit, v))

\* delta * 0.01
DragStep(delta) == delta * (WeightUnit \div 100)

\* delta * -0.0025
WheelStep(delta) == (0 - delta) * (WeightUnit \div 400)

\* a variant of CCToWeight that takes 128 for the top of the CC range
CCToWeightBy128(value) == (value * 2 * WeightUnit) \div 128
\* (value / 127) * 2
CCToWeight(value) == value * (WeightUnit \div 127) * 2

-----------------------------------------------------------------------------
(* Strings *)

SP == " "

RECURSIVE TrimStart(_)
TrimStart(s) == IF s # <<>> /\ Head(s) = SP THEN TrimStart(Tail(s)) ELSE s

RECURSIVE TrimEnd(_)
TrimEnd(s) ==
    IF s # <<>> /\ s[Len(s)] = SP THEN TrimEnd(SubSeq(s, 1, Len(s) - 1)) ELSE s

\* String.prototype.trim
Trim(s) == TrimEnd(TrimStart(s))

\* what window.prompt returns: null when the dialog is cancelled, else the text
Cancelled == [isNull |-> TRUE, str |-> <<>>]
Typed(s) == [isNull |-> FALSE, str |-> s]

\* !name, for null and for a string
Falsy(a) == a.isNull \/ a.str = <<>>

-----------------------------------------------------------------------------
(* Map *)

MapHas(m, k) == \E i \in DOMAIN m : m[i][1] = k

MapGet(m, k) == m[CHOOSE i \in DOMAIN m : m[i][1] = k][2]

MapSet(m, k, v) ==
    IF MapHas(m, k)
    THEN [i \in DOMAIN m |-> IF m[i][1] = k THEN <<k, v>> ELSE m[i]]
    ELSE Append(m, <<k, v>>)

MapDelete(m, k) == SelectSeq(m, LAMBDA e : e[1] # k)

MapKeys(m) == [i \in DOMAIN m |-> m[i][1]]

MapValues(m) == [i \in DOMAIN m |-> m[i][2]]

\* new Map([...a, ...b])
RECURSIVE MapMerge(_, _)
MapMerge(a, b) ==
    IF b = <<>> THEN a ELSE MapMerge(MapSet(a, b[1][1], b[1][2]), Tail(b))

-----------------------------------------------------------------------------
(* The built-in presets *)

AmbientDreams == <<"Ambient", SP, "Dreams">>
SynthwaveDrive == <<"Synthwave", SP, "Drive">>
LoFiBeats == <<"Lo-Fi", SP, "Beats">>

\* an absent weight is <<>>
W(x) == <<x>>

DEFAULT_PRESETS == <<
    <<AmbientDreams, <<
        [color |-> "#3dffab", text |-> <<"Lush", SP, "Strings">>, weight |-> W(WeightUnit)],
        [color |-> "#d8ff3e", text |-> <<"Sparkling", SP, "Arpeggios">>, weight |-> W(WeightUnit)],
        [color |-> "#9900ff", text |-> <<"Warm", SP, "Pads">>, weight |-> <<>>],
        [color |-> "#5200ff", text |-> <<"Ethereal", SP, "Vocals">>, weight |-> <<>>] >> >>,
    <<SynthwaveDrive, <<
        [color |-> "#ff25f6", text |-> <<"Gated", SP, "Reverb", SP, "Drums">>, weight |-> W(WeightUnit)],
        [color |-> "#2af6de", text |-> <<"Driving", SP, "Bassline">>, weight |-> W(WeightUnit)],
        [color |-> "#ffdd28", text |-> <<"Sawtooth", SP, "Lead", SP, "Synth">>, weight |-> W(WeightUnit \div 2)],
        [color |-> "#9900ff", text |-> <<"Analog", SP, "Brass", SP, "Stabs">>, weight |-> <<>>] >> >>,
    <<LoFiBeats, <<
        [color |-> "#d8ff3e", text |-> <<"Jazzy", SP, "Electric", SP, "Piano">>, weight |-> W(WeightUnit)],
        [color |-> "#ffdd28", text |-> <<"Vinyl", SP, "Crackle">>, weight |-> W((WeightUnit * 8) \div 10)],
        [color |-> "#3dffab", text |-> <<"Boom", SP, "Bap", SP, "Drums">>, weight |-> W(WeightUnit)],
        [color |-> "#9900ff", text |-> <<"Mellow", SP, "Trumpet">>, weight |-> <<>>] >> >> >>

\* `prompt-${i}`
PromptIdOf(i) == <<"prompt-", i>>

\* weight ?? 0
Nullish(w, d) == IF w = <<>> THEN d ELSE w[1]

\* the prompts of one built-in preset, as buildInitialPresets makes them
\* (i counts from 0), cut to the first NumPrompts
BuiltinPrompt(list, i) ==
    [promptId |-> PromptIdOf(i),
     text     |-> list[i + 1].text,
     weight   |-> Nullish(list[i + 1].weight, 0),
     cc       |-> i,
     color    |-> list[i + 1].color]

BuiltinCount(list) == Min(NumPrompts, Len(list))

BuiltinPrompts(list) ==
    [j \in 1..BuiltinCount(list) |-> BuiltinPrompt(list, j - 1)]

\* buildInitialPresets: the objects are laid out preset after preset
RECURSIVE BuildInitialPresets(_, _)
BuildInitialPresets(k, acc) ==
    IF k > Len(DEFAULT_PRESETS) THEN acc
    ELSE LET list == DEFAULT_PRESETS[k][2]
             objs == BuiltinPrompts(list)
             base == Len(acc.heap)
             pmap == [j \in 1..Len(objs) |-> <<objs[j].promptId, base + j>>]
         IN  BuildInitialPresets(k + 1,
                 [heap |-> acc.heap \o objs,
                  presets |-> MapSet(acc.presets, DEFAULT_PRESETS[k][1], pmap)])

initialPresets == BuildInitialPresets(1, [heap |-> <<>>, presets |-> <<>>])

\* PromptDjMidi.defaultPresets (the Map itself is never written to)
defaultPresets == initialPresets.presets

\* this.defaultPresets.keys().next().value
FirstDefaultName == defaultPresets[1][1]

-----------------------------------------------------------------------------
(* Serialised presets *)

\* Array.from(promptMap.entries()), each Prompt written out by value
PromptEntries(pmap, h) == [j \in DOMAIN pmap |-> <<pmap[j][1], h[pmap[j][2]]>>]

\* the property name that reaches Object.prototype's __proto__ accessor
ProtoName == <<"__proto__">>

\* property names that are array indices (of one digit, the ones drawn here)
Digits == <<"0", "1", "2", "3", "4", "5", "6", "7", "8", "9">>
IsIndex(key) == Len(key) = 1 /\ \E d \in DOMAIN Digits : Digits[d] = key[1]
IndexOf(key) == CHOOSE d \in DOMAIN Digits : Digits[d] = key[1]

\* obj[key] = v on a plain object, obj held as its own properties in the
\* order the engine lists them: index keys first and ascending, then the
\* others as they were added. Assigning an object to obj['__proto__'] sets
\* the prototype and adds no property.
ObjSet(obj, key, v) ==
    IF key = ProtoName THEN obj
    ELSE IF MapHas(obj, key) THEN MapSet(obj, key, v)
    ELSE IF IsIndex(key)
    THEN LET before == SelectSeq(obj, LAMBDA e :
                         IsIndex(e[1]) /\ IndexOf(e[1]) < IndexOf(key))
         IN  before \o <<<<key, v>>>>
             \o SubSeq(obj, Len(before) + 1, Len(obj))
    ELSE Append(obj, <<key, v>>)

\* serializePresets: obj[name] = entries, for each preset in turn; the text
\* JSON.stringify gives is held as the properties it lists
RECURSIVE SerializeObj(_, _, _)
SerializeObj(ps, h, obj) ==
    IF ps = <<>> THEN obj
    ELSE SerializeObj(Tail(ps), h,
                      ObjSet(obj, ps[1][1], PromptEntries(ps[1][2], h)))

serializePresets(ps, h) == [kind |-> "json", obj |-> SerializeObj(ps, h, <<>>)]

\* new Map(obj[name]): every parsed Prompt is a new object
RECURSIVE NewPromptMap(_, _, _)
NewPromptMap(entries, h, pmap) ==
    IF entries = <<>> THEN [heap |-> h, pmap |-> pmap]
    ELSE NewPromptMap(Tail(entries), Append(h, entries[1][2]),
                      MapSet(pmap, entries[1][1], Len(h) + 1))

\* deserializePresets, for a text JSON.parse accepts
RECURSIVE DeserializeObj(_, _, _)
DeserializeObj(obj, h, ps) ==
    IF obj = <<>> THEN [heap |-> h, presets |-> ps]
    ELSE LET made == NewPromptMap(obj[1][2], h, <<>>)
         IN  DeserializeObj(Tail(obj), made.heap,
                            MapSet(ps, obj[1][1], made.pmap))

deserializePresets(text, h) == DeserializeObj(text.obj, h, <<>>)

\* localStorage holds nothing under the key, a text JSON.parse rejects, or a
\* text an earlier session wrote
StorageMissing == [kind |-> "missing"]
StorageMalformed == [kind |-> "malformed"]

\* the text an earlier session left: one user preset, saved from the first
\* built-in preset after prompt-0 was turned and bound to CC 7
EarlierName == <<"Mine">>
EarlierPrompts ==
    LET objs == BuiltinPrompts(DEFAULT_PRESETS[1][2])
    IN  [j \in DOMAIN objs |->
            <<objs[j].promptId,
              IF j = 1 THEN [objs[j] EXCEPT !.weight = CCToWeight(64), !.cc = 7]
                       ELSE objs[j]>>]
StorageEarlier == [kind |-> "json", obj |-> <<<<EarlierName, EarlierPrompts>>>>]

-----------------------------------------------------------------------------
(* The platform's MIDI inputs *)

Inputs == <<"in1", "in2">>
NoInput == "<null>"

-----------------------------------------------------------------------------
(* Rendering: PromptDjMidi.renderPrompts, and what each element does when its
   properties are set *)

\* a prompt-controller as the template first makes it; firstUpdated sets
\* lastValidText
NewController(p, show) ==
    [promptId |-> p.promptId, text |-> p.text, weight |-> p.weight,
     color |-> p.color, cc |-> p.cc, channel |-> 0,
     learnMode |-> FALSE, showCC |-> show, lastValidText |-> p.text]

\* a variant of update() that leaves learnMode alone
UpdateControllerKeepsLearn(c, p, show) ==
    [c EXCEPT !.promptId = p.promptId, !.text = p.text, !.weight = p.weight,
              !.color = p.color, !.cc = p.cc, !.showCC = show]

\* a prompt-controller that is rendered again: the bound properties are set,
\* and update() clears learnMode when showCC went to false
UpdateController(c, p, show) ==
    [c EXCEPT !.promptId = p.promptId, !.text = p.text, !.weight = p.weight,
              !.color = p.color, !.cc = p.cc, !.showCC = show,
              !.learnMode = IF c.showCC # show /\ ~show THEN FALSE ELSE @]

NewKnob(c) ==
    [value |-> c.weight, dragStartPos |-> 0, dragStartValue |-> 0,
     dragging |-> FALSE]

\* the elements after PromptDjMidi has rendered: one per prompt, by position
RenderControllers(cs, ps, h, show) ==
    [j \in DOMAIN ps |->
        IF j \in DOMAIN cs THEN UpdateController(cs[j], h[ps[j][2]], show)
                           ELSE NewController(h[ps[j][2]], show)]

RenderKnobs(ks, cs) ==
    [j \in DOMAIN cs |->
        IF j \in DOMAIN ks THEN [ks[j] EXCEPT !.value = cs[j].weight]
                           ELSE NewKnob(cs[j])]

\* st: [heap, prompts, ctl, knob, changed, emitted]
Render(st, show) ==
    LET cs == RenderControllers(st.ctl, st.prompts, st.heap, show)
    IN  [st EXCEPT !.ctl = cs, !.knob = RenderKnobs(st.knob, cs)]

-----------------------------------------------------------------------------
(* PromptDjMidi: the registry *)

\* a variant of the merge that stores the event's detail as the entry
MergePromptChangeWholeDetail(st, detail) ==
    LET ref == MapGet(st.prompts, detail.promptId)
        h2 == [st.heap EXCEPT ![ref] = detail]
        newPrompts == MapSet(st.prompts, detail.promptId, ref)
    IN  [st EXCEPT !.heap = h2, !.prompts = newPrompts,
                   !.emitted = Append(@, PromptEntries(newPrompts, h2))]

\* a variant of the merge that takes one change per handler and skips the rest
MergePromptChangeOncePerHandler(st, detail) ==
    IF st.emitted # <<>> THEN st
    ELSE LET ref == MapGet(st.prompts, detail.promptId)
             h2 == [st.heap EXCEPT ![ref].text = detail.text,
                                   ![ref].weight = detail.weight,
                                   ![ref].cc = detail.cc]
             newPrompts == MapSet(st.prompts, detail.promptId, ref)
         IN  [st EXCEPT !.heap = h2, !.prompts = newPrompts,
                        !.emitted = Append(@, PromptEntries(newPrompts, h2))]

\* handlePromptChanged once the prompt is found: text, weight and cc are
\* assigned on the Prompt object, the Map is copied and the event fired
MergePromptChange(st, detail) ==
    LET ref == MapGet(st.prompts, detail.promptId)
        h2 == [st.heap EXCEPT ![ref].text = detail.text,
                              ![ref].weight = detail.weight,
                              ![ref].cc = detail.cc]
        newPrompts == MapSet(st.prompts, detail.promptId, ref)
    IN  [st EXCEPT !.heap = h2, !.prompts = newPrompts,
                   !.emitted = Append(@, PromptEntries(newPrompts, h2))]

\* a variant of handlePromptChanged that logs the unknown prompt and goes on
\* to fire the event
handlePromptChangedNoReturn(st, detail) ==
    IF ~MapHas(st.prompts, detail.promptId)
    THEN [st EXCEPT !.emitted = Append(@, PromptEntries(st.prompts, st.heap))]
    ELSE MergePromptChange(st, detail)

\* handlePromptChanged
handlePromptChanged(st, detail) ==
    IF ~MapHas(st.prompts, detail.promptId) THEN st
    ELSE MergePromptChange(st, detail)

\* loadActivePreset
loadActivePreset(st, ps, name) ==
    IF ~MapHas(ps, name) THEN st
    ELSE LET newPrompts == MapGet(ps, name)
         IN  [st EXCEPT !.prompts = newPrompts,
                        !.emitted = Append(@, PromptEntries(newPrompts, st.heap))]

\* savePresetsToStorage: the text written
UserPresets(ps) == SelectSeq(ps, LAMBDA e : ~MapHas(defaultPresets, e[1]))

savePresetsToStorage(ps, h) == serializePresets(UserPresets(ps), h)

-----------------------------------------------------------------------------
(* PromptController *)

\* dispatchPromptChange, and the parent's listener it runs
dispatchPromptChange(st, i) ==
    LET c == st.ctl[i]
        detail == [promptId |-> c.promptId, text |-> c.text,
                   weight |-> c.weight, cc |-> c.cc, color |-> c.color]
    IN  handlePromptChanged([st EXCEPT !.changed = Append(@, detail)], detail)

\* a variant of the listener in which learning also takes the message's value
OnCCMessageLearnTakesValue(st, i, msg) ==
    IF st.ctl[i].learnMode
    THEN dispatchPromptChange(
            [st EXCEPT !.ctl[i].cc = msg.cc, !.ctl[i].channel = msg.channel,
                       !.ctl[i].weight = CCToWeight(msg.value),
                       !.ctl[i].learnMode = FALSE], i)
    ELSE IF msg.cc = st.ctl[i].cc
    THEN dispatchPromptChange(
            [st EXCEPT !.ctl[i].weight = CCToWeight(msg.value)], i)
    ELSE st

\* the 'cc-message' listener of controller i
OnCCMessage(st, i, msg) ==
    IF st.ctl[i].learnMode
    THEN dispatchPromptChange(
            [st EXCEPT !.ctl[i].cc = msg.cc, !.ctl[i].channel = msg.channel,
                       !.ctl[i].learnMode = FALSE], i)
    ELSE IF msg.cc = st.ctl[i].cc
    THEN dispatchPromptChange(
            [st EXCEPT !.ctl[i].weight = CCToWeight(msg.value)], i)
    ELSE st

\* dispatchEvent('cc-message'): the listeners run in the order they were added
RECURSIVE DispatchCCMessage(_, _, _)
RECURSIVE DispatchCCMessageLastBoundOnly(_, _, _)
\* a variant in which, of the knobs bound to the number, only the last answers
DispatchCCMessageLastBoundOnly(st, i, msg) ==
    IF i > Len(st.ctl) THEN st
    ELSE IF \E j \in (i + 1)..Len(st.ctl) :
                ~st.ctl[j].learnMode /\ st.ctl[j].cc = msg.cc
    THEN DispatchCCMessageLastBoundOnly(
            IF st.ctl[i].learnMode THEN OnCCMessage(st, i, msg) ELSE st,
            i + 1, msg)
    ELSE DispatchCCMessageLastBoundOnly(OnCCMessage(st, i, msg), i + 1, msg)

DispatchCCMessage(st, i, msg) ==
    IF i > Len(st.ctl) THEN st
    ELSE DispatchCCMessage(OnCCMessage(st, i, msg), i + 1, msg)

\* updateWeight, the listener of the knob's 'input' event
updateWeight(st, i) ==
    dispatchPromptChange([st EXCEPT !.ctl[i].weight = st.knob[i].value], i)

-----------------------------------------------------------------------------
(* WeightKnob *)

\* handlePointerMove of knob i
handlePointerMove(st, i, clientY) ==
    LET delta == st.knob[i].dragStartPos - clientY
        v == Clamp(st.knob[i].dragStartValue + DragStep(delta))
    IN  updateWeight([st EXCEPT !.knob[i].value = v], i)

\* window 'pointermove': every knob whose listener is attached
RECURSIVE DispatchPointerMove(_, _, _)
DispatchPointerMove(st, i, clientY) ==
    IF i > Len(st.knob) THEN st
    ELSE DispatchPointerMove(
            IF st.knob[i].dragging THEN handlePointerMove(st, i, clientY) ELSE st,
            i + 1, clientY)

\* handleWheel of knob i
handleWheel(st, i, deltaY) ==
    LET v == Clamp(st.knob[i].value + WheelStep(deltaY))
    IN  updateWeight([st EXCEPT !.knob[i].value = v], i)

-----------------------------------------------------------------------------
(* Bounds on the environment *)

\* requestMIDIAccess calls that may be waiting for the user's answer at once
MaxPending == 1

\* handlers run after the page has loaded
MaxSteps == 3

\* the same, when only the MIDI handlers run
MaxMidiSteps == 6

-----------------------------------------------------------------------------
(* Inputs *)

\* clientY where a press lands, and where the pointer is moved to
PressYs == {150}
MoveYs == {0, 300}

\* deltaY of wheel events
WheelDeltas == {-600, 600}

\* raw MIDI messages <<input, status, data1, data2>>: control changes on
\* channel 0 from the first input, on channels 3 and 15, a note-on, the
\* status bytes on either side of the control changes, and a control change
\* from the second input
MidiMessages ==
    ({Inputs[1]} \X {176} \X {0, 7} \X {0, 64, 127})
    \cup {<<Inputs[1], 179, 7, 127>>, <<Inputs[1], 191, 1, 64>>,
          <<Inputs[1], 144, 7, 64>>, <<Inputs[1], 175, 0, 64>>,
          <<Inputs[1], 192, 0, 64>>, <<Inputs[2], 176, 0, 64>>}

\* what the user types into window.prompt
PromptAnswers ==
    {Cancelled, Typed(<<>>), Typed(<<SP, SP>>), Typed(<<SP, "Mine", SP>>),
     Typed(AmbientDreams), Typed(<<SP>> \o LoFiBeats), Typed(ProtoName)}

\* 'prompt-changed' events that reach handlePromptChanged from elsewhere
\* than a rendered controller: one for a prompt the registry does not hold,
\* one that sets text, weight and cc of prompt-0 at once
PromptChangedDetails ==
    {[promptId |-> PromptIdOf(16), text |-> <<"Jazz">>, weight |-> WeightUnit,
      cc |-> 7, color |-> "#000000"],
     [promptId |-> PromptIdOf(0), text |-> <<"Jazz">>, weight |-> WeightUnit \div 2,
      cc |-> 7, color |-> "#000000"]}

\* a preset name the store never holds
AbsentName == <<"Gone">>

\* what the user leaves in a prompt's text field
TypedTexts == {<<SP>>, <<SP, "Jazz", SP>>}

\* what the page finds when it loads: <<the stored text, whether the
\* browser has navigator.requestMIDIAccess>>
Environments ==
    {<<StorageMissing, TRUE>>, <<StorageEarlier, TRUE>>,
     <<StorageMalformed, FALSE>>}

-----------------------------------------------------------------------------
(* State *)

St == [heap |-> heap, prompts |-> prompts, ctl |-> ctl, knob |-> knob,
       changed |-> <<>>, emitted |-> <<>>]

\* a variant of main that adds no 'prompts-changed' listener
SetWeightedPromptsSeedOnly(st) ==
    IF phase = "constructed"
    THEN [from |-> "main",
          prompts |-> PromptEntries(MapGet(defaultPresets, AmbientDreams),
                                    st.heap)]
    ELSE engine

\* main: while the element is appended no listener is attached yet, and
\* main then hands the engine the built-in 'Ambient Dreams' prompts; after
\* that its 'prompts-changed' listener hands on the detail of every event
SetWeightedPrompts(st) ==
    IF phase = "constructed"
    THEN [from |-> "main",
          prompts |-> PromptEntries(MapGet(defaultPresets, AmbientDreams),
                                    st.heap)]
    ELSE IF st.emitted = <<>> THEN engine
    ELSE [from |-> "prompts-changed", prompts |-> st.emitted[Len(st.emitted)]]

\* the handler is over: the elements render, and the events it fired are kept
Commit(st, show) ==
    \E r \in {Render(st, show)} :
        /\ heap' = r.heap
        /\ prompts' = r.prompts
        /\ ctl' = r.ctl
        /\ knob' = r.knob
        /\ changed' = r.changed
        /\ emitted' = r.emitted
        /\ engine' = SetWeightedPrompts(r)

Constructed ==
    /\ phase = "constructed"
    /\ heap = initialPresets.heap
    /\ presets = <<>>
    /\ activePresetName = FirstDefaultName
    /\ prompts = MapGet(defaultPresets, FirstDefaultName)
    /\ \E cfg \in Environments :
          /\ storage = cfg[1]
          /\ midi = [supported |-> cfg[2], access |-> "null",
                     activeMidiInputId |-> NoInput, listening |-> FALSE,
                     pending |-> 0,
                     midiInputIds |-> <<>>, shownInputId |-> NoInput]
    /\ showMidi = FALSE
    /\ ctl = <<>>
    /\ knob = <<>>
    /\ changed = <<>>
    /\ emitted = <<>>
    /\ alerts = <<>>
    /\ lastOp = [op |-> "new"]
    /\ engine = [from |-> "none", prompts |-> <<>>]

Init == Constructed /\ budget = MaxSteps

\* every handler but connectedCallback takes one from the budget
Running == phase = "running" /\ budget > 0 /\ budget' = budget - 1

-----------------------------------------------------------------------------
(* PromptDjMidi.connectedCallback: loadPresets, then the first render *)

ConnectedCallback ==
    /\ phase = "constructed"
    /\ phase' = "running"
    /\ budget' = budget
    /\ lastOp' = [op |-> "connectedCallback"]
    /\ UNCHANGED <<activePresetName, storage, showMidi, midi>>
    /\ IF storage.kind = "malformed"
       THEN \* JSON.parse throws, and nothing catches it
            /\ presets' = presets
            /\ alerts' = <<"SyntaxError">>
            /\ Commit(St, showMidi)
       ELSE LET user == IF storage.kind = "missing"
                        THEN [heap |-> heap, presets |-> <<>>]
                        ELSE deserializePresets(storage, heap)
                ps == MapMerge(defaultPresets, user.presets)
            IN  /\ presets' = ps
                /\ alerts' = <<>>
                /\ Commit(loadActivePreset([St EXCEPT !.heap = user.heap],
                                           ps, activePresetName), showMidi)

-----------------------------------------------------------------------------
(* WeightKnob: drag and wheel *)

PointerDown(i, y) ==
    /\ Running
    /\ lastOp' = [op |-> "pointerdown", knob |-> i, clientY |-> y]
    /\ alerts' = <<>>
    /\ Commit([St EXCEPT !.knob[i].dragStartPos = y,
                         !.knob[i].dragStartValue = knob[i].value,
                         !.knob[i].dragging = TRUE], showMidi)
    /\ UNCHANGED <<phase, presets, activePresetName, storage, showMidi, midi>>

PointerMove(y) ==
    /\ Running
    /\ \E i \in DOMAIN knob : knob[i].dragging
    /\ lastOp' = [op |-> "pointermove", clientY |-> y]
    /\ alerts' = <<>>
    /\ Commit(DispatchPointerMove(St, 1, y), showMidi)
    /\ UNCHANGED <<phase, presets, activePresetName, storage, showMidi, midi>>

PointerUp ==
    /\ Running
    /\ \E i \in DOMAIN knob : knob[i].dragging
    /\ lastOp' = [op |-> "pointerup"]
    /\ alerts' = <<>>
    /\ Commit([St EXCEPT !.knob = [j \in DOMAIN knob |->
                                     [knob[j] EXCEPT !.dragging = FALSE]]],
              showMidi)
    /\ UNCHANGED <<phase, presets, activePresetName, storage, showMidi, midi>>

\* window 'pointercancel', when the browser or the system takes the pointer
\* away during a drag: handlePointerDown registered no listener for it, so
\* no handler of the knob runs and no 'pointerup' follows
PointerCancel ==
    /\ Running
    /\ \E i \in DOMAIN knob : knob[i].dragging
    /\ lastOp' = [op |-> "pointercancel"]
    /\ alerts' = <<>>
    /\ Commit(St, showMidi)
    /\ UNCHANGED <<phase, presets, activePresetName, storage, showMidi, midi>>

Wheel(i, deltaY) ==
    /\ Running
    /\ lastOp' = [op |-> "wheel", knob |-> i, deltaY |-> deltaY]
    /\ alerts' = <<>>
    /\ Commit(handleWheel(St, i, deltaY), showMidi)
    /\ UNCHANGED <<phase, presets, activePresetName, storage, showMidi, midi>>

-----------------------------------------------------------------------------
(* PromptController: learn mode and the text field *)

toggleLearnMode(i) ==
    /\ Running
    /\ lastOp' = [op |-> "toggleLearnMode", knob |-> i]
    /\ alerts' = <<>>
    /\ Commit([St EXCEPT !.ctl[i].learnMode = ~ctl[i].learnMode], showMidi)
    /\ UNCHANGED <<phase, presets, activePresetName, storage, showMidi, midi>>

\* resetText
resetText(st, i) == [st EXCEPT !.ctl[i].text = st.ctl[i].lastValidText]

\* updateText, with textContent what the field holds at blur
updateText(st, i, textContent) ==
    LET newText == Trim(textContent)
    IN  dispatchPromptChange(
            IF newText = <<>> THEN resetText(st, i)
            ELSE [st EXCEPT !.ctl[i].text = newText,
                            !.ctl[i].lastValidText = newText], i)

\* the user types and leaves the field (or presses Enter)
TextBlur(i, typed) ==
    /\ Running
    /\ lastOp' = [op |-> "blur", knob |-> i, typed |-> typed]
    /\ alerts' = <<>>
    /\ Commit(updateText(St, i, typed), showMidi)
    /\ UNCHANGED <<phase, presets, activePresetName, storage, showMidi, midi>>

\* the user types and presses Escape: resetText, then blur runs updateText
\* on the text resetText put back
TextEscape(i) ==
    /\ Running
    /\ lastOp' = [op |-> "escape", knob |-> i]
    /\ alerts' = <<>>
    /\ Commit(updateText(resetText(St, i), i, ctl[i].lastValidText), showMidi)
    /\ UNCHANGED <<phase, presets, activePresetName, storage, showMidi, midi>>

\* a 'prompt-changed' event with the given detail reaches PromptDjMidi
PromptChanged(detail) ==
    /\ Running
    /\ lastOp' = [op |-> "prompt-changed", detail |-> detail]
    /\ alerts' = <<>>
    /\ Commit(handlePromptChanged([St EXCEPT !.changed = <<detail>>], detail),
              showMidi)
    /\ UNCHANGED <<phase, presets, activePresetName, storage, showMidi, midi>>

-----------------------------------------------------------------------------
(* PromptDjMidi: the preset store *)

\* handlePresetChange, for the value the change event carries
handlePresetChange(name) ==
    /\ Running
    /\ lastOp' = [op |-> "handlePresetChange", name |-> name]
    /\ alerts' = <<>>
    /\ activePresetName' = name
    /\ Commit(loadActivePreset(St, presets, name), showMidi)
    /\ UNCHANGED <<phase, presets, storage, showMidi, midi>>

\* whether saveCurrentPreset gets as far as window.confirm
SaveAsksConfirm(answer) ==
    /\ ~Falsy(answer)
    /\ MapHas(presets, Trim(answer.str))
    /\ ~MapHas(defaultPresets, Trim(answer.str))

\* a variant of the early returns that tests the name as typed
SaveRejectedUntrimmed(answer, ok) ==
    \/ Falsy(answer)
    \/ MapHas(defaultPresets, answer.str)
    \/ /\ MapHas(presets, Trim(answer.str))
       /\ ~MapHas(defaultPresets, Trim(answer.str))
       /\ ~ok

\* a variant of the early returns that overwrites without asking
SaveRejectedNoConfirm(answer, ok) ==
    \/ Falsy(answer)
    \/ Trim(answer.str) = <<>>
    \/ MapHas(defaultPresets, Trim(answer.str))

\* the ways saveCurrentPreset returns early
SaveRejected(answer, ok) ==
    \/ Falsy(answer)
    \/ Trim(answer.str) = <<>>
    \/ MapHas(defaultPresets, Trim(answer.str))
    \/ /\ MapHas(presets, Trim(answer.str))
       /\ ~MapHas(defaultPresets, Trim(answer.str))
       /\ ~ok

SaveAlerts(answer) ==
    IF ~Falsy(answer) /\ Trim(answer.str) # <<>>
       /\ MapHas(defaultPresets, Trim(answer.str))
    THEN <<"Cannot overwrite default preset">>
    ELSE <<>>

\* saveCurrentPreset; answer is what window.prompt returns, ok what
\* window.confirm returns if it is asked
saveCurrentPreset(answer, ok) ==
    /\ Running
    /\ lastOp' = [op |-> "saveCurrentPreset", answer |-> answer, ok |-> ok]
    /\ alerts' = SaveAlerts(answer)
    /\ IF SaveRejected(answer, ok)
       THEN UNCHANGED <<presets, activePresetName, storage>>
       ELSE LET name == Trim(answer.str)
                ps == MapSet(presets, name, prompts)
            IN  /\ presets' = ps
                /\ activePresetName' = name
                /\ storage' = savePresetsToStorage(ps, heap)
    /\ Commit(St, showMidi)
    /\ UNCHANGED <<phase, showMidi, midi>>

\* a variant of the guard that lets a default preset be deleted
DeleteNeverRefused == FALSE

\* deleteCurrentPreset refuses a built-in preset
DeleteRefused == MapHas(defaultPresets, activePresetName)

\* deleteCurrentPreset; ok is what window.confirm returns if it is asked
deleteCurrentPreset(ok) ==
    /\ Running
    /\ lastOp' = [op |-> "deleteCurrentPreset", ok |-> ok,
                  name |-> activePresetName]
    /\ IF DeleteRefused
       THEN /\ alerts' = <<"Cannot delete a default preset.">>
            /\ Commit(St, showMidi)
            /\ UNCHANGED <<presets, activePresetName, storage>>
       ELSE IF ~ok
       THEN /\ alerts' = <<>>
            /\ Commit(St, showMidi)
            /\ UNCHANGED <<presets, activePresetName, storage>>
       ELSE LET ps == MapDelete(presets, activePresetName)
                st == loadActivePreset(St, ps, FirstDefaultName)
            IN  /\ alerts' = <<>>
                /\ presets' = ps
                /\ activePresetName' = FirstDefaultName
                /\ Commit(st, showMidi)
                /\ storage' = savePresetsToStorage(ps, st.heap)
    /\ UNCHANGED <<phase, showMidi, midi>>

-----------------------------------------------------------------------------
(* MidiDispatcher and the MIDI panel *)

\* the messages of the two errors getMidiAccess throws itself
UnsupportedMessage == "Your browser does not support the Web MIDI API."
UnableToAcquire == "Unable to acquire MIDI access."

\* a variant of the catch block that leaves the panel shown
setShowMidiCatchKeepsPanel(message) ==
    [showMidi |-> TRUE, alerts |-> <<message>>]

\* setShowMidi, the catch block: the panel is hidden and one 'error' event
\* carries the message to main's errorToast
setShowMidiCatch(message) ==
    [showMidi |-> FALSE, alerts |-> <<message>>]

\* a variant of getMidiAccess that never finds an access it has kept
AccessNeverCached(m) == FALSE

\* getMidiAccess, `if (this.access)`: whatever the first request left there
\* is truthy, the MIDIAccess as well as a rejection
AccessCached(m) == m.access # "null"

\* toggleShowMidi -> setShowMidi -> getMidiAccess, up to the first await that
\* has to wait for the platform. When getMidiAccess throws before that await,
\* the catch block runs one microtask after the render of showMidi = true.
toggleShowMidi ==
    /\ Running
    /\ lastOp' = [op |-> "toggleShowMidi", show |-> ~showMidi,
                  learners |-> {i \in DOMAIN ctl : ctl[i].learnMode}]
    /\ UNCHANGED <<phase, presets, activePresetName, storage>>
    /\ IF showMidi
       THEN \* setShowMidi(false)
            /\ showMidi' = FALSE
            /\ alerts' = <<>>
            /\ midi' = midi
            /\ Commit(St, FALSE)
       ELSE IF AccessCached(midi) /\ midi.access = "granted"
       THEN \* the cached access: its input ids are returned
            /\ showMidi' = TRUE
            /\ alerts' = <<>>
            /\ midi' = [midi EXCEPT !.midiInputIds = Inputs,
                                    !.shownInputId = midi.activeMidiInputId]
            /\ Commit(St, TRUE)
       ELSE IF AccessCached(midi)
       THEN \* the cached value is the rejection: it has no inputs
            /\ showMidi' = setShowMidiCatch("TypeError").showMidi
            /\ alerts' = setShowMidiCatch("TypeError").alerts
            /\ midi' = midi
            /\ Commit(Render(St, TRUE), setShowMidiCatch("TypeError").showMidi)
       ELSE IF ~midi.supported
       THEN /\ showMidi' = setShowMidiCatch(UnsupportedMessage).showMidi
            /\ alerts' = setShowMidiCatch(UnsupportedMessage).alerts
            /\ midi' = midi
            /\ Commit(Render(St, TRUE),
                      setShowMidiCatch(UnsupportedMessage).showMidi)
       ELSE /\ midi.pending < MaxPending
            /\ showMidi' = TRUE
            /\ alerts' = <<>>
            /\ midi' = [midi EXCEPT !.pending = @ + 1]
            /\ Commit(St, TRUE)

\* a variant of getMidiAccess that selects the first input at every
\* enumeration
AutoSelectAlways(m) == Inputs[1]

\* getMidiAccess, after the enumeration: the first input becomes the active
\* one when there is an input and none is active
AutoSelect(m) ==
    IF Len(Inputs) > 0 /\ m.activeMidiInputId = NoInput
    THEN Inputs[1] ELSE m.activeMidiInputId

\* requestMIDIAccess settles, and getMidiAccess and setShowMidi run on
MidiAccessSettled(granted) ==
    /\ Running
    /\ midi.pending > 0
    /\ lastOp' = [op |-> "requestMIDIAccess", granted |-> granted,
                  learners |-> {i \in DOMAIN ctl : ctl[i].learnMode}]
    /\ UNCHANGED <<phase, presets, activePresetName, storage>>
    /\ IF granted
       THEN LET active == AutoSelect(midi)
            IN  /\ midi' = [midi EXCEPT !.pending = @ - 1,
                                        !.access = "granted",
                                        !.activeMidiInputId = active,
                                        !.listening = TRUE,
                                        !.midiInputIds = Inputs,
                                        !.shownInputId = active]
                /\ showMidi' = showMidi
                /\ alerts' = <<>>
                /\ Commit(St, showMidi)
       ELSE \* .catch(error => error): the rejection is stored as the access
            /\ midi' = [midi EXCEPT !.pending = @ - 1, !.access = "error"]
            /\ showMidi' = setShowMidiCatch("TypeError").showMidi
            /\ alerts' = setShowMidiCatch("TypeError").alerts
            /\ Commit(St, setShowMidiCatch("TypeError").showMidi)

\* handleMidiInputChange, for the value the change event carries
handleMidiInputChange(newMidiId) ==
    /\ Running
    /\ lastOp' = [op |-> "handleMidiInputChange", id |-> newMidiId]
    /\ alerts' = <<>>
    /\ midi' = [midi EXCEPT !.activeMidiInputId = newMidiId,
                            !.shownInputId = newMidiId]
    /\ Commit(St, showMidi)
    /\ UNCHANGED <<phase, presets, activePresetName, storage, showMidi>>

\* statusByte & 0x0f, statusByte & 0xf0
LowNibble(b) == b % 16
HighNibble(b) == b - (b % 16)

\* a variant of the test that listens to every input
IsControlChangeAnyInput(dev, status) == HighNibble(status) = 176

\* whether onmidimessage of input dev dispatches a 'cc-message'
IsControlChange(dev, status) ==
    dev = midi.activeMidiInputId /\ HighNibble(status) = 176

\* input.onmidimessage of input dev, for the bytes <<status, d1, d2>>
MidiMessage(dev, status, d1, d2) ==
    /\ Running
    /\ midi.listening
    /\ lastOp' = [op |-> "onmidimessage", input |-> dev, data |-> TRUE,
                  status |-> status, cc |-> d1, value |-> d2,
                  sent |-> IsControlChange(dev, status),
                  dispatched |->
                     IF IsControlChange(dev, status)
                     THEN <<[cc |-> d1, value |-> d2,
                             channel |-> LowNibble(status)]>>
                     ELSE <<>>]
    /\ alerts' = <<>>
    /\ IF IsControlChange(dev, status)
       THEN Commit(DispatchCCMessage(St, 1,
                [cc |-> d1, value |-> d2, channel |-> LowNibble(status)]),
                showMidi)
       ELSE Commit(St, showMidi)
    /\ UNCHANGED <<phase, presets, activePresetName, storage, showMidi, midi>>

\* input.onmidimessage of input dev, for an event without data
MidiMessageNoData(dev) ==
    /\ Running
    /\ midi.listening
    /\ lastOp' = [op |-> "onmidimessage", input |-> dev, data |-> FALSE,
                  status |-> 0, cc |-> 0, value |-> 0, sent |-> FALSE,
                  dispatched |-> <<>>]
    /\ alerts' = <<>>
    /\ Commit(St, showMidi)
    /\ UNCHANGED <<phase, presets, activePresetName, storage, showMidi, midi>>

-----------------------------------------------------------------------------

Knobs == DOMAIN ctl

PresetNames == {presets[j][1] : j \in DOMAIN presets}

InputIds == {Inputs[j] : j \in DOMAIN Inputs}

\* an id no input has
UnknownInput == "in9"

\* pointer and wheel events on the knobs
KnobStep ==
    \/ \E i \in Knobs, y \in PressYs : PointerDown(i, y)
    \/ \E y \in MoveYs : PointerMove(y)
    \/ PointerUp
    \/ PointerCancel
    \/ \E i \in Knobs, d \in WheelDeltas : Wheel(i, d)

\* the text field of a prompt
TextStep ==
    \/ \E i \in Knobs, t \in TypedTexts : TextBlur(i, t)
    \/ \E i \in Knobs : TextEscape(i)

\* a 'prompt-changed' event on its own
ChangeStep == \E d \in PromptChangedDetails : PromptChanged(d)

\* a click on a knob's CC label
LearnStep == \E i \in Knobs : toggleLearnMode(i)

\* the preset controls
PresetStep ==
    \/ \E n \in PresetNames \cup {AbsentName} : handlePresetChange(n)
    \/ \E a \in PromptAnswers :
          \E ok \in (IF SaveAsksConfirm(a) THEN BOOLEAN ELSE {TRUE}) :
             saveCurrentPreset(a, ok)
    \/ \E ok \in (IF DeleteRefused THEN {TRUE} ELSE BOOLEAN) :
          deleteCurrentPreset(ok)

\* the MIDI controls and the MIDI inputs
MidiStep ==
    \/ toggleShowMidi
    \/ \E g \in BOOLEAN : MidiAccessSettled(g)
    \/ \E d \in InputIds \cup {UnknownInput} : handleMidiInputChange(d)
    \/ \E m \in MidiMessages : MidiMessage(m[1], m[2], m[3], m[4])
    \/ \E d \in InputIds : MidiMessageNoData(d)

\* every handler, in any order
Next ==
    \/ ConnectedCallback
    \/ KnobStep
    \/ TextStep
    \/ ChangeStep
    \/ LearnStep
    \/ PresetStep
    \/ MidiStep

Spec == Init /\ [][Next]_vars

\* the MIDI controls, the learn mode and the MIDI inputs alone, for longer
InitMidi == Constructed /\ budget = MaxMidiSteps

NextMidi ==
    \/ ConnectedCallback
    \/ LearnStep
    \/ MidiStep

SpecMidi == InitMidi /\ [][NextMidi]_vars

-----------------------------------------------------------------------------
(* serializePresets and deserializePresets on their own: a Map of presets is
   written out, and the text is read back *)

\* presets in a Map handed to serializePresets
MaxRoundTripPresets == 2

\* preset names: plain, array indices, the accessor's name, a built-in name
RoundTripNames == {<<"Mine">>, <<"7">>, <<"3">>, ProtoName, AmbientDreams}

\* prompt Maps: two built-in ones, one with its entries the other way round,
\* and an empty one
RoundTripPromptMaps ==
    {defaultPresets[1][2], defaultPresets[3][2],
     <<defaultPresets[1][2][2], defaultPresets[1][2][1]>>, <<>>}

\* the Maps of at most MaxRoundTripPresets presets, in every insertion order
RECURSIVE PresetMaps(_)
PresetMaps(n) ==
    IF n = 0 THEN {<<>>}
    ELSE LET shorter == PresetMaps(n - 1)
         IN  shorter \cup
             {Append(ps, <<name, pmap>>) :
                ps \in {q \in shorter : Len(q) = n - 1},
                name \in RoundTripNames, pmap \in RoundTripPromptMaps}

InitRoundTrip ==
    /\ phase = "presets"
    /\ heap = initialPresets.heap
    /\ \E ps \in PresetMaps(MaxRoundTripPresets) :
          /\ \A i, j \in DOMAIN ps : i # j => ps[i][1] # ps[j][1]
          /\ presets = ps
    /\ activePresetName = FirstDefaultName
    /\ prompts = MapGet(defaultPresets, FirstDefaultName)
    /\ storage = StorageMissing
    /\ midi = [supported |-> TRUE, access |-> "null",
               activeMidiInputId |-> NoInput, listening |-> FALSE,
               pending |-> 0, midiInputIds |-> <<>>, shownInputId |-> NoInput]
    /\ showMidi = FALSE
    /\ ctl = <<>>
    /\ knob = <<>>
    /\ changed = <<>>
    /\ emitted = <<>>
    /\ alerts = <<>>
    /\ lastOp = [op |-> "new"]
    /\ engine = [from |-> "none", prompts |-> <<>>]
    /\ budget = 0

\* serializePresets(presets)
SerializeStep ==
    /\ phase = "presets"
    /\ phase' = "text"
    /\ storage' = serializePresets(presets, heap)
    /\ lastOp' = [op |-> "serializePresets"]
    /\ UNCHANGED <<heap, presets, activePresetName, prompts, showMidi, midi,
                   ctl, knob, changed, emitted, alerts, engine, budget>>

\* deserializePresets(text); the Map it returns is kept in lastOp
DeserializeStep ==
    /\ phase = "text"
    /\ phase' = "parsed"
    /\ \E made \in {deserializePresets(storage, heap)} :
          /\ heap' = made.heap
          /\ lastOp' = [op |-> "deserializePresets", presets |-> made.presets]
    /\ UNCHANGED <<presets, activePresetName, prompts, storage, showMidi,
                   midi, ctl, knob, changed, emitted, alerts, engine, budget>>

NextRoundTrip ==
    \/ SerializeStep
    \/ DeserializeStep

SpecRoundTrip == InitRoundTrip /\ [][NextRoundTrip]_vars

-----------------------------------------------------------------------------
(* Vocabulary of the properties *)

\* the knobs in learn mode
Learners == {i \in DOMAIN ctl : ctl[i].learnMode}

\* the prompts a Map of references stands for, by value
Values(pmap, h) == PromptEntries(pmap, h)

\* the built-in prompts of the built-in preset at position k
BuiltinValues(k) == Values(defaultPresets[k][2], initialPresets.heap)

\* what the store holds under a name
PresetValue(name) == Values(MapGet(presets, name), heap)

\* the registry, by value
Registry == Values(prompts, heap)

\* the registry entry of knob i
Entry(i) == heap[prompts[i][2]]

\* a string of blanks only, and a string without its outer blanks
IsBlank(s) == \A j \in DOMAIN s : s[j] = SP
Core(s) ==
    LET inked == {j \in DOMAIN s : s[j] # SP}
        lo == CHOOSE j \in inked : \A k \in inked : j <= k
        hi == CHOOSE j \in inked : \A k \in inked : j >= k
    IN  IF inked = {} THEN <<>> ELSE SubSeq(s, lo, hi)

IsDefaultName(n) == \E k \in DOMAIN DEFAULT_PRESETS : DEFAULT_PRESETS[k][1] = n

\* the handlers that end in a change of one prompt
ChangeOps ==
    {"pointermove", "wheel", "blur", "escape", "onmidimessage", "prompt-changed"}

\* the 'prompt-changed' events a handler fired for knob i
ChangedBy(evs, i) == SelectSeq(evs, LAMBDA e : e.promptId = ctl[i].promptId)

\* the last handler was a control change that reached the controllers
CCSent == lastOp.op = "onmidimessage" /\ lastOp.sent

\* the last handler was a save that stored the registry
SavedOk ==
    /\ lastOp.op = "saveCurrentPreset"
    /\ ~lastOp.answer.isNull
    /\ ~IsBlank(lastOp.answer.str)
    /\ ~IsDefaultName(Core(lastOp.answer.str))
    /\ lastOp.ok

-----------------------------------------------------------------------------
(* C1 *)

\* C1: learn mode is mutually exclusive across knobs: in every reachable
\* state at most one knob has learnMode = true
C1_LearnExclusive == Cardinality(Learners) <= 1

-----------------------------------------------------------------------------
(* C2 *)

\* C2: every default preset is immutable: whatever the user has done, the
\* content kept for each default preset is its built-in text, weight and cc
C2_DefaultsImmutable ==
    \A k \in DOMAIN defaultPresets :
        Values(defaultPresets[k][2], heap) = BuiltinValues(k)

-----------------------------------------------------------------------------
(* C3 *)

\* C3: a saved user preset is a snapshot: a change of the live registry
\* (weight, text or cc of a prompt) made after a successful save(name) leaves
\* the content stored under name as it was at the save
C3_SavedIsSnapshot ==
    [][ (SavedOk /\ lastOp'.op \in ChangeOps /\ presets' = presets)
        => Values(MapGet(presets, activePresetName), heap')
           = Values(MapGet(presets, activePresetName), heap) ]_vars

-----------------------------------------------------------------------------
(* C4 *)

InRange(w) == 0 <= w /\ w <= MaxWeight * WeightUnit

\* C4: every weight set by drag, wheel or a CC message is within [0,2]: the
\* value of each knob, the weight of its controller and the weight of its
\* registry entry, in every reachable state
C4_WeightsInRange ==
    /\ \A i \in DOMAIN knob : InRange(knob[i].value) /\ InRange(ctl[i].weight)
    /\ \A j \in DOMAIN prompts : InRange(heap[prompts[j][2]].weight)
    /\ \A j \in DOMAIN changed : InRange(changed[j].weight)

\* a drag that would have gone past 2 has left the knob, its controller and
\* its registry entry at 2
C4_Witness ==
    /\ lastOp.op = "pointermove"
    /\ \E i \in DOMAIN knob :
          /\ knob[i].dragging
          /\ knob[i].dragStartValue
               + DragStep(knob[i].dragStartPos - lastOp.clientY)
             > MaxWeight * WeightUnit
          /\ knob[i].value = MaxWeight * WeightUnit
          /\ ctl[i].weight = MaxWeight * WeightUnit
          /\ Entry(i).weight = MaxWeight * WeightUnit

-----------------------------------------------------------------------------
(* C5 *)

\* C5: a knob in learn mode that receives a CC message with number c from the
\* active device takes c as its bound CC, leaves learn mode, keeps its value,
\* and fires exactly one changed event, carrying the old weight and the new cc
C5_LearnRebinds ==
    [][ \A i \in DOMAIN ctl :
          (CCSent' /\ ctl[i].learnMode)
          => /\ ctl'[i].cc = lastOp'.cc
             /\ ~ctl'[i].learnMode
             /\ ctl'[i].weight = ctl[i].weight
             /\ knob'[i].value = knob[i].value
             /\ Entry(i)'.cc = lastOp'.cc
             /\ Entry(i)'.weight = ctl[i].weight
             /\ ChangedBy(changed', i)
                = << [promptId |-> ctl[i].promptId, text |-> ctl[i].text,
                      weight |-> ctl[i].weight, cc |-> lastOp'.cc,
                      color |-> ctl[i].color] >> ]_vars

\* a control change has just been learnt: the event carries its number and a
\* weight that is not the one the message's value stands for
C5_Witness ==
    /\ CCSent
    /\ \E j \in DOMAIN changed :
          /\ changed[j].cc = lastOp.cc
          /\ changed[j].weight * 127 # lastOp.value * 2 * WeightUnit
          /\ \E i \in DOMAIN ctl :
                /\ ctl[i].promptId = changed[j].promptId
                /\ ctl[i].cc = lastOp.cc
                /\ ~ctl[i].learnMode
                /\ ctl[i].weight = changed[j].weight

-----------------------------------------------------------------------------
(* C6 *)

\* C6: with no knob in learn mode, a CC message {cc: c, value: v} from the
\* active device sets the weight of a knob bound to c to v/127*2 and fires one
\* changed event for it; a knob not bound to c is left alone, and a message
\* bound to no knob fires no event and changes neither knobs nor registry
C6_CCSetsWeight ==
    [][ (CCSent' /\ Learners = {})
        => /\ \A i \in DOMAIN ctl :
                IF ctl[i].cc = lastOp'.cc
                THEN /\ ctl'[i].weight * 127 = lastOp'.value * 2 * WeightUnit
                     /\ knob'[i].value = ctl'[i].weight
                     /\ Entry(i)'.weight = ctl'[i].weight
                     /\ Len(ChangedBy(changed', i)) = 1
                     /\ ChangedBy(changed', i)[1].weight = ctl'[i].weight
                ELSE /\ ctl'[i] = ctl[i]
                     /\ knob'[i] = knob[i]
                     /\ Entry(i)' = Entry(i)
                     /\ ChangedBy(changed', i) = <<>>
           /\ (\A i \in DOMAIN ctl : ctl[i].cc # lastOp'.cc)
                => /\ changed' = <<>>
                   /\ emitted' = <<>>
                   /\ Registry' = Registry
                   /\ <<ctl', knob', heap', prompts'>>
                      = <<ctl, knob, heap, prompts>> ]_vars

\* the message {cc, value: 64} has just set one bound knob to 64/127*2
C6_Witness ==
    /\ CCSent
    /\ lastOp.value = 64
    /\ Len(changed) = 1
    /\ changed[1].cc = lastOp.cc
    /\ changed[1].weight * 127 = 64 * 2 * WeightUnit
    /\ \E i \in DOMAIN ctl :
          ctl[i].cc = lastOp.cc /\ ctl[i].weight = changed[1].weight

-----------------------------------------------------------------------------
(* C7 *)

\* C7, as claimed: when several knobs are bound to the CC number of a message
\* (no knob learning), only one of them, the last bound, changes its weight
\* and fires a changed event
C7_OneKnobWins ==
    [][ (CCSent' /\ Learners = {}) => Len(changed') <= 1 ]_vars

\* C7, amended: when several knobs are bound to the CC number of a message
\* (no knob learning), every one of them takes the weight v/127*2 and fires
\* one changed event, in render order
C7_AllBoundKnobsAnswer ==
    [][ (CCSent' /\ Learners = {})
        => LET bound == {i \in DOMAIN ctl : ctl[i].cc = lastOp'.cc}
           IN  /\ Len(changed') = Cardinality(bound)
               /\ \A i \in bound :
                     /\ ctl'[i].weight * 127 = lastOp'.value * 2 * WeightUnit
                     /\ Cardinality({k \in DOMAIN changed' :
                            changed'[k].promptId = ctl[i].promptId}) = 1
               /\ \A k \in DOMAIN changed' : \A m \in DOMAIN changed' :
                     k < m =>
                        \E i \in bound : \E j \in bound :
                            /\ i < j
                            /\ changed'[k].promptId = ctl[i].promptId
                            /\ changed'[m].promptId = ctl[j].promptId ]_vars

\* one message has just moved two knobs bound to its number
C7_Witness ==
    /\ CCSent
    /\ Len(changed) >= 2
    /\ \A k \in DOMAIN changed :
          /\ changed[k].cc = lastOp.cc
          /\ changed[k].weight * 127 = lastOp.value * 2 * WeightUnit
    /\ lastOp.value = 64
    /\ Cardinality({i \in DOMAIN ctl :
            ctl[i].cc = lastOp.cc /\ ctl[i].weight * 127 = 64 * 2 * WeightUnit})
       >= 2

-----------------------------------------------------------------------------
(* C8 *)

\* C8: deleting the active user preset leaves the first default preset
\* active, removes the deleted name from the store, and fires exactly one
\* registry-changed event, whose payload is that default's prompts
C8_DeleteActiveUser ==
    [][ (lastOp'.op = "deleteCurrentPreset" /\ lastOp'.ok
         /\ MapHas(presets, activePresetName)
         /\ ~IsDefaultName(activePresetName))
        => /\ activePresetName' = FirstDefaultName
           /\ ~MapHas(presets', activePresetName)
           /\ emitted' = <<BuiltinValues(1)>>
           /\ Registry' = BuiltinValues(1) ]_vars

-----------------------------------------------------------------------------
(* C9 *)

\* C9: delete of a default preset always fails, and leaves the preset store,
\* the active preset name, the registry and the persisted storage unchanged,
\* with no registry-changed event
C9_DeleteDefaultRefused ==
    [][ (lastOp'.op = "deleteCurrentPreset" /\ IsDefaultName(activePresetName))
        => /\ alerts' = <<"Cannot delete a default preset.">>
           /\ presets' = presets
           /\ activePresetName' = activePresetName
           /\ storage' = storage
           /\ <<prompts', heap'>> = <<prompts, heap>>
           /\ emitted' = <<>> ]_vars

\* a delete has just been refused while a default preset was active and the
\* store held a user preset too
C9_Witness ==
    /\ lastOp.op = "deleteCurrentPreset"
    /\ IsDefaultName(activePresetName)
    /\ lastOp.name = activePresetName
    /\ alerts = <<"Cannot delete a default preset.">>
    /\ \E j \in DOMAIN presets : ~IsDefaultName(presets[j][1])

-----------------------------------------------------------------------------
(* C10 *)

\* the name typed is empty or blank, or is a default preset's name once its
\* outer blanks are dropped
NameIsEmpty(a) == a.isNull \/ IsBlank(a.str)
NameIsReserved(a) == ~a.isNull /\ IsDefaultName(Core(a.str))

\* C10: save with a name that is empty or blank after trimming, or equal to a
\* default preset's name, fails (the second with a message) and changes
\* nothing: the preset store, the active preset name, the persisted storage
\* and the registry are as before
C10_SaveRejected ==
    [][ (lastOp'.op = "saveCurrentPreset"
         /\ (NameIsEmpty(lastOp'.answer) \/ NameIsReserved(lastOp'.answer)))
        => /\ presets' = presets
           /\ activePresetName' = activePresetName
           /\ storage' = storage
           /\ <<prompts', heap'>> = <<prompts, heap>>
           /\ emitted' = <<>>
           /\ alerts' = IF NameIsReserved(lastOp'.answer)
                        THEN <<"Cannot overwrite default preset">>
                        ELSE <<>> ]_vars

\* a save under a default preset's name, typed with a leading blank, has just
\* been refused, while a user preset was the active one
C10_Witness ==
    /\ lastOp.op = "saveCurrentPreset"
    /\ lastOp.answer = Typed(<<SP>> \o LoFiBeats)
    /\ alerts = <<"Cannot overwrite default preset">>
    /\ MapHas(presets, LoFiBeats)
    /\ MapHas(presets, activePresetName)
    /\ ~IsDefaultName(activePresetName)
-----------------------------------------------------------------------------
(* C11 *)

\* the name typed, once its outer blanks are dropped, is a user preset of
\* the store
NameIsUserPreset(a) ==
    /\ ~a.isNull
    /\ ~IsBlank(a.str)
    /\ ~IsDefaultName(Core(a.str))
    /\ MapHas(presets, Core(a.str))

\* C11: a save under the name of an existing user preset overwrites it only
\* with confirmation: without it the preset stored under that name, the
\* active preset name and the persisted storage are unchanged; with it the
\* name holds the registry and is active
C11_OverwriteNeedsConfirm ==
    [][ (lastOp'.op = "saveCurrentPreset" /\ NameIsUserPreset(lastOp'.answer))
        => LET name == Core(lastOp'.answer.str)
           IN  IF lastOp'.ok
               THEN /\ Values(MapGet(presets', name), heap') = Registry
                    /\ activePresetName' = name
               ELSE /\ presets' = presets
                    /\ Values(MapGet(presets', name), heap')
                       = Values(MapGet(presets, name), heap)
                    /\ activePresetName' = activePresetName
                    /\ storage' = storage ]_vars

\* an overwrite has just been declined, of a user preset that differs from
\* the registry and is not the active one
C11_Witness ==
    /\ lastOp.op = "saveCurrentPreset"
    /\ NameIsUserPreset(lastOp.answer)
    /\ ~lastOp.ok
    /\ PresetValue(Core(lastOp.answer.str)) # Registry
    /\ activePresetName # Core(lastOp.answer.str)

-----------------------------------------------------------------------------
(* C12 *)

\* the last handler was a delete that went through
DeletedOk ==
    /\ lastOp.op = "deleteCurrentPreset"
    /\ lastOp.ok
    /\ ~IsDefaultName(lastOp.name)

\* the presets the persisted text lists
StoredNames ==
    IF storage.kind = "json"
    THEN {storage.obj[j][1] : j \in DOMAIN storage.obj}
    ELSE {}

\* the persisted text lists exactly the user presets of the store, each with
\* the prompts the store holds for it
StorageIsUserPresets ==
    /\ storage.kind = "json"
    /\ StoredNames = {n \in PresetNames : ~IsDefaultName(n)}
    /\ \A n \in StoredNames : MapGet(storage.obj, n) = PresetValue(n)

\* C12: after every successful save or delete the preset named is stored
\* (and active) or removed, and the persisted storage holds exactly the user
\* presets of the store: no default preset, and every other preset
C12_StorageFollowsStore ==
    /\ SavedOk =>
          /\ MapHas(presets, Core(lastOp.answer.str))
          /\ PresetValue(Core(lastOp.answer.str)) = Registry
          /\ activePresetName = Core(lastOp.answer.str)
          /\ StorageIsUserPresets
    /\ DeletedOk =>
          /\ ~MapHas(presets, lastOp.name)
          /\ StorageIsUserPresets

-----------------------------------------------------------------------------
(* C13 *)

\* C13: switching to a name absent from the store changes nothing (active
\* preset name and registry as before, no registry-changed event); switching
\* to a name present makes it active and fires exactly one registry-changed
\* event, carrying that preset's prompts, which become the registry
C13_SwitchTo ==
    [][ lastOp'.op = "handlePresetChange"
        => IF MapHas(presets, lastOp'.name)
           THEN /\ activePresetName' = lastOp'.name
                /\ emitted' = <<PresetValue(lastOp'.name)>>
                /\ Registry' = PresetValue(lastOp'.name)
           ELSE /\ activePresetName' = activePresetName
                /\ Registry' = Registry
                /\ emitted' = <<>> ]_vars

-----------------------------------------------------------------------------
(* C14 *)

\* C14: a start on missing or malformed stored data completes, the store
\* then holds exactly the default presets, and the registry holds the active
\* default preset
C14_StartupNeverFatal ==
    (lastOp.op = "connectedCallback" /\ storage.kind # "json")
    => /\ alerts = <<>>
       /\ MapKeys(presets) = MapKeys(defaultPresets)
       /\ \A k \in DOMAIN presets : Values(presets[k][2], heap) = BuiltinValues(k)
       /\ activePresetName = FirstDefaultName
       /\ Registry = BuiltinValues(1)

-----------------------------------------------------------------------------
(* C15 *)

\* two Maps of presets hold the same names, and under each name the same
\* prompt entries in the same order
SamePresets(a, b, h) ==
    /\ {a[j][1] : j \in DOMAIN a} = {b[j][1] : j \in DOMAIN b}
    /\ \A j \in DOMAIN a :
          MapHas(b, a[j][1])
          => Values(MapGet(b, a[j][1]), h) = Values(a[j][2], h)

\* C15: round trip: deserialize(serialize(presets)) is presets again, for
\* any mapping of preset names to ordered lists of (promptId, Prompt)
\* entries, the entries of each preset in their order
C15_RoundTrip ==
    lastOp.op = "deserializePresets"
    => SamePresets(presets, lastOp.presets, heap)

-----------------------------------------------------------------------------
(* C16 *)

\* C16: a change addressed to a promptId the registry does not hold is
\* dropped: the registry is unchanged and no registry-changed event is fired
C16_UnknownPromptDropped ==
    [][ (lastOp'.op = "prompt-changed"
         /\ ~MapHas(prompts, lastOp'.detail.promptId))
        => /\ Registry' = Registry
           /\ <<prompts', heap'>> = <<prompts, heap>>
           /\ emitted' = <<>> ]_vars

\* a change for an unknown prompt has just been dropped, and the registry
\* still holds an earlier change
C16_Witness ==
    /\ lastOp.op = "prompt-changed"
    /\ ~MapHas(prompts, lastOp.detail.promptId)
    /\ emitted = <<>>
    /\ activePresetName = FirstDefaultName
    /\ Registry # BuiltinValues(1)

-----------------------------------------------------------------------------
(* C17 *)

\* cur is prev with the text, weight and cc of event ev merged into the entry
\* ev names: same promptIds in the same order, promptId and color of every
\* entry kept, every other entry untouched
MergedInto(prev, ev, cur) ==
    /\ Len(cur) = Len(prev)
    /\ \A j \in DOMAIN cur :
          /\ cur[j][1] = prev[j][1]
          /\ cur[j][2].promptId = prev[j][2].promptId
          /\ cur[j][2].color = prev[j][2].color
          /\ IF cur[j][1] = ev.promptId
             THEN /\ cur[j][2].text = ev.text
                  /\ cur[j][2].weight = ev.weight
                  /\ cur[j][2].cc = ev.cc
             ELSE cur[j][2] = prev[j][2]

\* C17: a change addressed to a promptId of the registry changes only that
\* entry's text, weight and cc (promptId, color, the other entries, the set
\* of promptIds and their order stay) and fires exactly one registry-changed
\* event, carrying the whole registry; so for each change of a handler in turn
C17_ChangeTouchesOneEntry ==
    [][ lastOp'.op \in ChangeOps
        => LET applied == SelectSeq(changed',
                            LAMBDA e : MapHas(prompts, e.promptId))
           IN  /\ Len(emitted') = Len(applied)
               /\ \A k \in DOMAIN emitted' :
                     MergedInto(IF k = 1 THEN Registry ELSE emitted'[k - 1],
                                applied[k], emitted'[k])
               /\ Registry' = IF emitted' = <<>> THEN Registry
                              ELSE emitted'[Len(emitted')] ]_vars

\* one change has just set text, weight and cc of the first prompt at once,
\* with a colour in its detail that the entry did not take
C17_Witness ==
    /\ lastOp.op = "prompt-changed"
    /\ MapHas(prompts, lastOp.detail.promptId)
    /\ Len(emitted) = 1
    /\ emitted[1] = Registry
    /\ Entry(1).text = lastOp.detail.text
    /\ Entry(1).weight = lastOp.detail.weight
    /\ Entry(1).cc = lastOp.detail.cc
    /\ Entry(1).color # lastOp.detail.color
    /\ Entry(2).cc # lastOp.detail.cc

-----------------------------------------------------------------------------
(* C18 *)

\* C18, as claimed: after every registry mutation, the startup load among
\* them, the engine has received a registry-changed event, and the payload
\* of the most recent one is the full current registry
C18_LastEventIsRegistry ==
    phase = "running"
    => /\ engine.from = "prompts-changed"
       /\ engine.prompts = Registry

\* C18, amended: after every registry mutation, the startup load among them,
\* what the engine was last given (by main at startup, by the listener of the
\* registry-changed events after it) is the full current registry
C18_EngineHoldsRegistry ==
    phase = "running" => engine.prompts = Registry

\* the engine holds the prompts of another preset than the one main gave it,
\* handed on by a preset switch
C18_Witness ==
    /\ lastOp.op = "handlePresetChange"
    /\ engine.from = "prompts-changed"
    /\ engine.prompts = Registry
    /\ engine.prompts # BuiltinValues(1)
    /\ activePresetName # FirstDefaultName

-----------------------------------------------------------------------------
(* C19 *)

\* C19: no update is lost when changes (drag, wheel, CC, text edit) addressed
\* to different prompts interleave: after a handler's changes each prompt
\* they address holds the text, weight and cc of the last change addressed
\* to it, and every prompt they do not address holds what it held
C19_NoLostUpdate ==
    [][ lastOp'.op \in ChangeOps
        => /\ Len(Registry') = Len(Registry)
           /\ \A j \in DOMAIN Registry :
                LET mine == SelectSeq(changed',
                               LAMBDA e : e.promptId = Registry[j][1])
                    last == mine[Len(mine)]
                IN  IF mine = <<>> THEN Registry'[j] = Registry[j]
                    ELSE /\ Registry'[j][1] = Registry[j][1]
                         /\ Registry'[j][2].text = last.text
                         /\ Registry'[j][2].weight = last.weight
                         /\ Registry'[j][2].cc = last.cc ]_vars

\* one pointer move has just changed two prompts, both knobs being dragged,
\* and the registry holds both changes
C19_Witness ==
    /\ lastOp.op = "pointermove"
    /\ Len(changed) = 2
    /\ changed[1].promptId # changed[2].promptId
    /\ Len(emitted) = 2
    /\ \A k \in DOMAIN changed :
          \E j \in DOMAIN Registry :
             /\ Registry[j][1] = changed[k].promptId
             /\ Registry[j][2].weight = changed[k].weight
             /\ Registry[j][2].weight # BuiltinValues(1)[j][2].weight

-----------------------------------------------------------------------------
(* C20 *)

\* C20: a raw MIDI message produces a cc-message event if and only if it
\* comes from the active device and its status byte is in 0xB0-0xBF; the
\* event carries channel = low nibble of the status, cc = second byte,
\* value = third byte; any other message (another device, the active id
\* unknown, another message type) produces no event and changes no state
C20_OnlyActiveControlChanges ==
    [][ lastOp'.op = "onmidimessage"
        => IF /\ lastOp'.input = midi.activeMidiInputId
              /\ lastOp'.data
              /\ lastOp'.status \in 176..191
           THEN lastOp'.dispatched
                = <<[cc |-> lastOp'.cc, value |-> lastOp'.value,
                     channel |-> lastOp'.status - 176]>>
           ELSE /\ lastOp'.dispatched = <<>>
                /\ changed' = <<>>
                /\ emitted' = <<>>
                /\ UNCHANGED <<phase, heap, presets, activePresetName, prompts,
                               storage, showMidi, midi, ctl, knob, engine>>
      ]_vars

\* a control change on channel 3 from the active device has just been
\* dispatched
C20_Witness ==
    /\ lastOp.op = "onmidimessage"
    /\ lastOp.status = 179
    /\ lastOp.input = midi.activeMidiInputId
    /\ lastOp.dispatched = <<[cc |-> 7, value |-> 127, channel |-> 3]>>
    /\ midi.access = "granted"

-----------------------------------------------------------------------------
(* The MIDI inputs: enumeration *)

\* C21: once a call of getMidiAccess has succeeded, every later call returns
\* the input ids of the access that was kept, the same ids as before, asks
\* the platform for nothing and leaves the active input as it was
C21_ListDevicesIdempotent ==
    [][(lastOp'.op = "toggleShowMidi" /\ lastOp'.show /\ midi.access = "granted")
         => /\ alerts' = <<>>
            /\ midi'.midiInputIds = Inputs
            /\ midi'.midiInputIds = midi.midiInputIds
            /\ midi'.pending = midi.pending
            /\ midi'.access = midi.access
            /\ midi'.activeMidiInputId = midi.activeMidiInputId]_vars

\* the panel has been opened again after the user chose the second input
C21_Witness ==
    /\ lastOp.op = "toggleShowMidi"
    /\ lastOp.show
    /\ showMidi
    /\ midi.access = "granted"
    /\ midi.pending = 0
    /\ midi.midiInputIds = Inputs
    /\ midi.activeMidiInputId = Inputs[2]

\* C22: a call of getMidiAccess on a host without Web MIDI fails with the
\* unsupported-platform error; a request the user or the system refuses
\* fails with the access error and leaves no access behind, so that every
\* failing call reports the error of its own cause
C22_FailureKinds ==
    [][/\ (lastOp'.op = "toggleShowMidi" /\ lastOp'.show /\ ~midi.supported)
            => alerts' = <<UnsupportedMessage>>
       /\ (lastOp'.op = "requestMIDIAccess" /\ ~lastOp'.granted)
            => (alerts' = <<UnableToAcquire>> /\ midi'.access = "null")
       /\ (lastOp'.op = "toggleShowMidi" /\ lastOp'.show /\ alerts' # <<>>)
            => alerts' \in {<<UnsupportedMessage>>, <<UnableToAcquire>>}]_vars

-----------------------------------------------------------------------------
(* The MIDI panel: failures *)

\* the handler that runs next is a call of getMidiAccess that throws before
\* it has to wait for the platform
EnableFailsAtOnce ==
    /\ lastOp'.op = "toggleShowMidi"
    /\ lastOp'.show
    /\ \/ midi.access = "error"
       \/ midi.access = "null" /\ ~midi.supported

\* the handler that runs next is a call of getMidiAccess that fails
EnableFails ==
    \/ EnableFailsAtOnce
    \/ /\ lastOp'.op = "requestMIDIAccess"
       /\ ~lastOp'.granted

\* no later call of getMidiAccess can succeed
MidiUnavailable == ~midi.supported \/ midi.access = "error"

\* C23: when showing the MIDI panel fails, one error reaches the
\* notification channel, the panel ends hidden, and the registry, the store,
\* the active preset and the persisted text are as before; after such a
\* failure a wheel event still sets the weight of its prompt in the registry
\* and a save still stores the registry under the name given
C23_MidiFailureContained ==
    [][/\ EnableFails
            => /\ Len(alerts') = 1
               /\ ~showMidi'
               /\ prompts' = prompts
               /\ heap' = heap
               /\ presets' = presets
               /\ activePresetName' = activePresetName
               /\ storage' = storage
               /\ changed' = <<>>
               /\ emitted' = <<>>
       /\ (MidiUnavailable /\ lastOp'.op = "wheel")
            => /\ heap'[prompts'[lastOp'.knob][2]].weight
                  = Clamp(Entry(lastOp'.knob).weight + WheelStep(lastOp'.deltaY))
               /\ emitted' # <<>>
               /\ emitted'[Len(emitted')] = Registry'
       /\ (MidiUnavailable /\ SavedOk')
            => /\ Values(MapGet(presets', Core(lastOp'.answer.str)), heap')
                  = Registry
               /\ activePresetName' = Core(lastOp'.answer.str)]_vars

\* a refused request has hidden the panel it had opened, and a wheel event
\* has then changed a weight
C23_Witness ==
    /\ lastOp.op = "wheel"
    /\ midi.access = "error"
    /\ ~showMidi
    /\ emitted # <<>>
    /\ Entry(lastOp.knob).weight = Clamp(WeightUnit + WheelStep(lastOp.deltaY))
    /\ Entry(lastOp.knob).weight # WeightUnit

-----------------------------------------------------------------------------
(* The MIDI panel: learn mode *)

\* C24: when showMidi goes from true to false, by the MIDI button, by a
\* refused request, or within a call of setShowMidi that fails at once, no
\* knob is in learn mode afterwards, and no knob's CC number, weight or
\* value has changed
C24_HidingClearsLearn ==
    [][((showMidi /\ ~showMidi') \/ EnableFailsAtOnce)
         => /\ DOMAIN ctl' = DOMAIN ctl
            /\ \A i \in DOMAIN ctl' :
                  /\ ~ctl'[i].learnMode
                  /\ ctl'[i].cc = ctl[i].cc
                  /\ ctl'[i].weight = ctl[i].weight
                  /\ knob'[i].value = knob[i].value
            /\ prompts' = prompts
            /\ heap' = heap]_vars

\* the MIDI button has hidden the panel while two knobs were in learn mode
C24_Witness ==
    /\ lastOp.op = "toggleShowMidi"
    /\ ~lastOp.show
    /\ Cardinality(lastOp.learners) = 2
    /\ ~showMidi
    /\ Learners = {}

-----------------------------------------------------------------------------
(* The preset store: the active preset *)

\* C25: once the presets are loaded, and after every save, delete and
\* switch, activePresetName is the name of a preset of the store
C25_ActiveInStore ==
    phase = "running" => MapHas(presets, activePresetName)

-----------------------------------------------------------------------------
(* The halo of a knob: PromptController.render and WeightKnob.render alone.
   A scale s is held as the integer s * WeightUnit, like a weight, and so is
   an audio level. *)

MIN_HALO_SCALE == 1
MAX_HALO_SCALE == 2
HALO_LEVEL_MODIFIER == 1

\* the weights 0, 0.1, ... 2 and the audio levels 0, 0.25, 0.5 and 1
HaloWeights == {k * (WeightUnit \div 10) : k \in 0..20}
AudioLevels == {0, WeightUnit \div 4, WeightUnit \div 2, WeightUnit}

\* PromptController.render: the audioLevel attribute given to the knob
KnobAudioLevel(c) == IF c.filtered THEN 0 ELSE c.audioLevel

\* a variant of the scale that does not halve the value
HaloScaleWholeValue(value, audioLevel) ==
    value * (MAX_HALO_SCALE - MIN_HALO_SCALE)
    + MIN_HALO_SCALE * WeightUnit
    + audioLevel * HALO_LEVEL_MODIFIER

\* WeightKnob.render: scale, for an even value
HaloScale(value, audioLevel) ==
    (value \div 2) * (MAX_HALO_SCALE - MIN_HALO_SCALE)
    + MIN_HALO_SCALE * WeightUnit
    + audioLevel * HALO_LEVEL_MODIFIER

\* WeightKnob.render: display of the halo
HaloDisplay(value) == IF value > 0 THEN "block" ELSE "none"

\* one prompt-controller with a weight, an audio level and the filtered flag
InitHalo ==
    /\ phase = "halo"
    /\ heap = initialPresets.heap
    /\ presets = <<>>
    /\ activePresetName = FirstDefaultName
    /\ prompts = MapGet(defaultPresets, FirstDefaultName)
    /\ storage = StorageMissing
    /\ midi = [supported |-> TRUE, access |-> "null",
               activeMidiInputId |-> NoInput, listening |-> FALSE,
               pending |-> 0, midiInputIds |-> <<>>, shownInputId |-> NoInput]
    /\ showMidi = FALSE
    /\ \E w \in HaloWeights, a \in AudioLevels, f \in BOOLEAN :
          ctl = <<[weight |-> w, audioLevel |-> a, filtered |-> f]>>
    /\ knob = <<>>
    /\ changed = <<>>
    /\ emitted = <<>>
    /\ alerts = <<>>
    /\ lastOp = [op |-> "new"]
    /\ engine = [from |-> "none", prompts |-> <<>>]
    /\ budget = 0

\* PromptController.render: the weight-knob gets its value and audioLevel
RenderControllerStep ==
    /\ phase = "halo"
    /\ phase' = "controller rendered"
    /\ knob' = <<[value |-> ctl[1].weight,
                  audioLevel |-> KnobAudioLevel(ctl[1])]>>
    /\ lastOp' = [op |-> "PromptController.render"]
    /\ UNCHANGED <<heap, presets, activePresetName, prompts, storage, showMidi,
                   midi, ctl, changed, emitted, alerts, engine, budget>>

\* WeightKnob.render: the style of the halo is kept in lastOp
RenderKnobStep ==
    /\ phase = "controller rendered"
    /\ phase' = "knob rendered"
    /\ lastOp' = [op |-> "WeightKnob.render",
                  display |-> HaloDisplay(knob[1].value),
                  scale |-> HaloScale(knob[1].value, knob[1].audioLevel)]
    /\ UNCHANGED <<heap, presets, activePresetName, prompts, storage, showMidi,
                   midi, ctl, knob, changed, emitted, alerts, engine, budget>>

NextHalo ==
    \/ RenderControllerStep
    \/ RenderKnobStep

SpecHalo == InitHalo /\ [][NextHalo]_vars

\* C26: for a weight w in [0, 2] and an audio level a, the halo is hidden
\* exactly when w = 0, and its scale is
\* MIN_SCALE + (w/2) * (MAX_SCALE - MIN_SCALE) + a * LEVEL_MODIFIER, where a
\* is taken as 0 for a prompt flagged as filtered (both sides doubled here)
C26_Halo ==
    [][lastOp'.op = "WeightKnob.render"
         => LET w == ctl[1].weight
                a == IF ctl[1].filtered THEN 0 ELSE ctl[1].audioLevel
            IN  /\ (lastOp'.display = "none") <=> (w = 0)
                /\ lastOp'.display \in {"none", "block"}
                /\ 2 * lastOp'.scale
                   = 2 * WeightUnit * MIN_HALO_SCALE
                     + w * (MAX_HALO_SCALE - MIN_HALO_SCALE)
                     + 2 * a * HALO_LEVEL_MODIFIER]_vars

\* a filtered prompt of weight 1 has been rendered while audio is playing:
\* the halo shows at scale 1.5
C26_Witness ==
    /\ lastOp.op = "WeightKnob.render"
    /\ ctl[1].weight = WeightUnit
    /\ ctl[1].filtered
    /\ ctl[1].audioLevel = WeightUnit \div 2
    /\ lastOp.display = "block"
    /\ 2 * lastOp.scale = 3 * WeightUnit

-----------------------------------------------------------------------------
(* The knob: the end of a drag *)

\* C27: once a drag has ended, by a release or by a pointer cancel, pointer
\* motion changes no knob value and no weight until the next press; during
\* a drag the value is clamp(valueAtPress + (yAtPress - y) * 0.01, 0, 2)
C27_DragEnds ==
    [][lastOp'.op = "pointermove"
         => /\ lastOp.op \in {"pointerup", "pointercancel"}
                => /\ \A i \in DOMAIN knob : knob'[i].value = knob[i].value
                   /\ changed' = <<>>
                   /\ heap' = heap
            /\ \A i \in DOMAIN knob :
                  knob[i].dragging
                     => knob'[i].value
                        = Clamp(knob[i].dragStartValue
                                + DragStep(knob[i].dragStartPos
                                           - lastOp'.clientY))]_vars

-----------------------------------------------------------------------------
(* The MIDI inputs: the active input *)

\* C28: the active input changes only by the user's choice or by the first
\* enumeration that succeeds, and by that one only when no input is active:
\* it then becomes the first input; no other enumeration changes it, and an
\* input the user chose is never replaced by an enumeration
C28_AutoSelectOnce ==
    [][/\ midi'.activeMidiInputId # midi.activeMidiInputId
            => \/ /\ lastOp'.op = "handleMidiInputChange"
                  /\ midi'.activeMidiInputId = lastOp'.id
               \/ /\ lastOp'.op = "requestMIDIAccess"
                  /\ lastOp'.granted
                  /\ midi.access # "granted"
                  /\ midi.activeMidiInputId = NoInput
                  /\ midi'.activeMidiInputId = Inputs[1]
       /\ (lastOp'.op = "requestMIDIAccess" /\ lastOp'.granted
           /\ midi.activeMidiInputId = NoInput)
            => midi'.activeMidiInputId = Inputs[1]
       /\ lastOp'.op \in {"toggleShowMidi", "requestMIDIAccess"}
            => midi'.shownInputId \in {midi.shownInputId, midi'.activeMidiInputId}]_vars

\* the first enumeration has succeeded after the user had chosen the second
\* input, and the second input is still the active one
C28_Witness ==
    /\ lastOp.op = "requestMIDIAccess"
    /\ lastOp.granted
    /\ midi.access = "granted"
    /\ midi.activeMidiInputId = Inputs[2]
    /\ midi.shownInputId = Inputs[2]

-----------------------------------------------------------------------------
(* The text field: cancelling an edit *)

\* the handler that runs next cancels a text edit: Escape, or a blur that
\* leaves the field blank
EditCancelled ==
    \/ lastOp'.op = "escape"
    \/ lastOp'.op = "blur" /\ IsBlank(lastOp'.typed)

\* C29: a cancelled text edit leaves the prompt with the text it had before
\* the edit began, in its controller and in the registry, whatever changed
\* that text last; and no text edit leaves the registry with an empty text
C29_CancelRestoresText ==
    [][/\ EditCancelled
            => /\ ctl'[lastOp'.knob].text = ctl[lastOp'.knob].text
               /\ heap'[prompts'[lastOp'.knob][2]].text
                  = Entry(lastOp'.knob).text
       /\ lastOp'.op \in {"blur", "escape"}
            => heap'[prompts'[lastOp'.knob][2]].text # <<>>]_vars

====
